---- MODULE Spec2Model ----
(***************************************************************************)
(* The three maintenance scripts of the repository:                        *)
(*   fix_all_warnings.py, fix_analysis_warnings.py, fix_chrono.py.         *)
(*                                                                         *)
(* A file's text is a sequence of tokens.  Every token stands for one      *)
(* fixed piece of text; the regular expressions of the scripts are         *)
(* translated to what they match on such sequences.  The tokens:           *)
(*                                                                         *)
(*   AW     AnalysisWarning {            RB    }                           *)
(*   NL     a line break                 SP    one space                   *)
(*   S16    sixteen spaces               CM    ,                           *)
(*   MSG    message: "m",                MK    message:<space>             *)
(*   MSGCX  message: "High COMPLEXITY",                                    *)
(*   MSGCN  message: "naming and coupling",                                *)
(*   MH     message: format!("n={}       (ends with a closing brace)       *)
(*   OKW    suggestion: "reduce coupling",                                 *)
(*   CAT    category: "c",               C:<v> category: "<v>"             *)
(*   LV     level: L                     LVL   level: Priority::Medium,    *)
(*   CID    capsule_id: None,                                              *)
(*   SUG    suggestion: None             SUGc  suggestion: None,           *)
(*   WP     warnings.push(               CAPS  capsule.                    *)
(*   FM     format!(                     STR   "s"                         *)
(*   TS     .to_string()                 M     .message                    *)
(*   RP     )                            EP    );                          *)
(*   CH     chrono::                     SO    Some(                       *)
(*   X      x                            RR    ).to_rfc3339()              *)
(*   RFCP   .to_rfc3339())                                                 *)
(***************************************************************************)
EXTENDS Integers, Sequences, FiniteSets, TLC

\* ------------------------------------------------------------ bounds
\* the longest input text of the rule specification, per family of tokens
MaxLen == 4
MaxPushLen == 5
MaxAnalysisLen == 5
MaxChronoLen == 5
\* the most errors the file system raises in one run
MaxErrors == 2

\* ------------------------------------------------------------ helpers
\* the values a category field is given
CategoryValues == {"complexity", "coupling", "dependencies", "architecture",
                   "naming", "validation", "analysis"}

CatTok(v) == CASE v = "complexity"   -> "C:complexity"
               [] v = "coupling"     -> "C:coupling"
               [] v = "dependencies" -> "C:dependencies"
               [] v = "architecture" -> "C:architecture"
               [] v = "naming"       -> "C:naming"
               [] v = "analysis"     -> "C:analysis"
               [] OTHER              -> "C:validation"

InsertedCats == {CatTok(v) : v \in CategoryValues}

Tokens == {"AW", "RB", "NL", "SP", "S16", "CM", "MSG", "MK", "MSGCX", "MSGCN", "MH",
           "OKW", "CAT", "LV", "LVL", "CID", "SUG", "SUGc", "WP", "CAPS", "FM",
           "STR", "TS", "M", "RP", "EP", "CH", "SO", "X", "RR", "RFCP"}
          \cup InsertedCats

\* the text of a file
Texts == Seq(Tokens)

Min(S) == CHOOSE x \in S : \A y \in S : x <= y

Tail2(s, p) == SubSeq(s, p, Len(s))

\* '\n'.join(lines)
Flatten[lines \in Seq(Texts), sep \in Texts] ==
  IF Len(lines) = 0 THEN <<>>
  ELSE IF Len(lines) = 1 THEN lines[1]
  ELSE lines[1] \o sep \o Flatten[Tail(lines), sep]

\* full_match.split('\n'): the lines of a text, at least one
SplitNL[s \in Texts] ==
  IF \E i \in 1..Len(s) : s[i] = "NL"
  THEN LET i == Min({k \in 1..Len(s) : s[k] = "NL"})
       IN  <<SubSeq(s, 1, i - 1)>> \o SplitNL[Tail2(s, i + 1)]
  ELSE <<s>>

SeqsUpTo(A, n) == UNION {[1..k -> A] : k \in 0..n}

\* ------------------------------------------------------------ token classes
\* the token's text contains '}' (always as its last character)
HasRB(t) == t \in {"RB", "MH"}
\* the token's text contains ')'
HasRP(t) == t \in {"TS", "RP", "EP", "RR", "RFCP"}
EndsRP(t) == t \in {"TS", "RP"}
StartsRP(t) == t \in {"RP", "EP"}
\* the token's text contains ',' (always as its last character)
HasComma(t) == t \in {"CM", "MSG", "MSGCX", "MSGCN", "OKW", "CAT", "LVL", "CID", "SUGc"}
IsWS(t) == t \in {"NL", "SP", "S16"}
\* 'message:' in text
HasMessage(t) == t \in {"MSG", "MSGCX", "MSGCN", "MH", "MK"}
StartsMessage(t) == HasMessage(t)
\* 'category:' in text
HasCategory(t) == t = "CAT" \/ t \in InsertedCats

\* the words of a token's text that matter to the keyword tests, as written
RawWords(t) == CASE t = "MSGCX" -> {"High", "COMPLEXITY"}
                 [] t = "MSGCN" -> {"naming", "and", "coupling"}
                 [] t = "OKW"   -> {"reduce", "coupling"}
                 [] OTHER       -> {}

\* str.lower()
lower(w) == CASE w = "COMPLEXITY" -> "complexity"
              [] w = "High"       -> "high"
              [] OTHER            -> w

\* kw in line.lower()
InLower(kw, line) ==
  \E i \in 1..Len(line) : \E w \in RawWords(line[i]) : lower(w) = kw

\* ------------------------------------------------------------ fix_all_warnings.py
\* the keyword tests of lines 40-51, in their order; the Russian keywords are
\* written in Latin letters
category_of(line) ==
  IF InLower("slozhnost", line) \/ InLower("complexity", line) THEN "complexity"
  ELSE IF InLower("svyazannost", line) \/ InLower("coupling", line) THEN "coupling"
  ELSE IF InLower("zavisimost", line) \/ InLower("cycle", line) THEN "dependencies"
  ELSE IF InLower("sloy", line) \/ InLower("layer", line) THEN "architecture"
  ELSE IF InLower("imen", line) \/ InLower("naming", line) THEN "naming"
  ELSE "validation"

\* the leading spaces of a line (lines 32-37)
indent_of[line \in Texts] ==
  IF Len(line) > 0 /\ line[1] = "SP" THEN <<"SP">> \o indent_of[Tail(line)]
  ELSE IF Len(line) > 0 /\ line[1] = "S16" THEN <<"S16">> \o indent_of[Tail(line)]
  ELSE <<>>

LineHasMessage(line) == \E i \in 1..Len(line) : HasMessage(line[i])

\* the line appended after the message line (line 53)
category_line(line) ==
  indent_of[line] \o <<CatTok(category_of(line)), "TS", "CM">>

\* the loop of lines 27-54 over the lines of the match
add_lines[lines \in Seq(Texts), category_added \in BOOLEAN] ==
  IF Len(lines) = 0 THEN <<>>
  ELSE IF LineHasMessage(lines[1]) /\ ~category_added
       THEN <<lines[1], category_line(lines[1])>> \o add_lines[Tail(lines), TRUE]
       ELSE <<lines[1]>> \o add_lines[Tail(lines), category_added]

add_category_if_missing(full_match) ==
  IF \E i \in 1..Len(full_match) : HasCategory(full_match[i])
  THEN full_match
  ELSE Flatten[add_lines[SplitNL[full_match], FALSE], <<"NL">>]

\* re.sub(r'AnalysisWarning\s*\{[^}]*?\}', add_category_if_missing, content)
sub_pattern[s \in Texts] ==
  IF Len(s) = 0 THEN <<>>
  ELSE IF s[1] = "AW" /\ \E j \in 2..Len(s) : HasRB(s[j])
       THEN LET j == Min({k \in 2..Len(s) : HasRB(s[k])})
            IN  add_category_if_missing(SubSeq(s, 1, j)) \o sub_pattern[Tail2(s, j + 1)]
       ELSE <<s[1]>> \o sub_pattern[Tail(s)]

\* the text both push rewrites emit after the message field (lines 70-74, 86-90)
record_tail(indent) ==
     <<"CM", "NL">> \o indent \o <<"SP", "SP", "SP", "SP", "LVL", "NL">>
  \o indent \o <<"SP", "SP", "SP", "SP", "C:analysis", "TS", "CM", "NL">>
  \o indent \o <<"SP", "SP", "SP", "SP", "CID", "NL">>
  \o indent \o <<"SP", "SP", "SP", "SP", "SUGc", "NL">>
  \o indent \o <<"RB", "EP">>

record_head(indent) ==
  indent \o <<"WP", "AW", "NL">> \o indent \o <<"SP", "SP", "SP", "SP", "MK">>

convert_string_warning(indent, warning_text) ==
  record_head(indent) \o warning_text \o record_tail(indent)

convert_format_warning(indent, format_content) ==
  record_head(indent) \o <<"FM">> \o format_content \o record_tail(indent)

\* the length of the whitespace run at the head of s
WsLen[s \in Texts] == IF Len(s) > 0 /\ IsWS(s[1]) THEN 1 + WsLen[Tail(s)] ELSE 0

\* warnings\.push\(([^)]+\.to_string\(\))\); at the head of s: the index of the
\* closing ');', or 0 without a match
StringPushEnd(s) ==
  IF Len(s) >= 4 /\ s[1] = "WP" /\ \E j \in 2..Len(s) : HasRP(s[j])
  THEN LET j == Min({k \in 2..Len(s) : HasRP(s[k])})
       IN  IF j > 2 /\ s[j] = "TS" /\ j < Len(s) /\ s[j + 1] = "EP" THEN j + 1 ELSE 0
  ELSE 0

\* re.sub(r'(\s*)warnings\.push\(([^)]+\.to_string\(\))\);', convert_string_warning, content)
sub_pattern_string_warnings[s \in Texts] ==
  IF Len(s) = 0 THEN <<>>
  ELSE LET w == WsLen[s]
           e == StringPushEnd(Tail2(s, w + 1))
       IN  IF e > 0
           THEN convert_string_warning(SubSeq(s, 1, w), SubSeq(s, w + 2, w + e - 1))
                \o sub_pattern_string_warnings[Tail2(s, w + e + 1)]
           ELSE <<s[1]>> \o sub_pattern_string_warnings[Tail(s)]

\* warnings\.push\(format!\(([^;]+)\)\); at the head of s: the index of the
\* closing ');', or 0 without a match
FormatPushEnd(s) ==
  IF Len(s) >= 4 /\ s[1] = "WP" /\ s[2] = "FM" /\ \E j \in 3..Len(s) : s[j] = "EP"
  THEN LET j == Min({k \in 3..Len(s) : s[k] = "EP"})
       IN  IF j > 3 /\ EndsRP(s[j - 1]) /\ ~(j = 4 /\ s[3] = "RP") THEN j ELSE 0
  ELSE 0

\* re.sub(r'(\s*)warnings\.push\(format!\(([^;]+)\)\);', convert_format_warning, content)
sub_pattern_format_warnings[s \in Texts] ==
  IF Len(s) = 0 THEN <<>>
  ELSE LET w == WsLen[s]
           e == FormatPushEnd(Tail2(s, w + 1))
       IN  IF e > 0
           THEN convert_format_warning(SubSeq(s, 1, w), SubSeq(s, w + 3, w + e - 1))
                \o sub_pattern_format_warnings[Tail2(s, w + e + 1)]
           ELSE <<s[1]>> \o sub_pattern_format_warnings[Tail(s)]

\* \.warnings\.push\(([^)]+)\.message\) with s[1] the token before
\* 'warnings.push(': the index of the '.message' token, or 0 without a match
MessagePushAt(s) ==
  IF Len(s) >= 5 /\ s[1] = "CAPS" /\ s[2] = "WP" /\ \E j \in 3..Len(s) : HasRP(s[j])
  THEN LET j == Min({k \in 3..Len(s) : HasRP(s[k])})
       IN  IF j > 4 /\ StartsRP(s[j]) /\ s[j - 1] = "M" THEN j - 1 ELSE 0
  ELSE 0

\* re.sub(r'\.warnings\.push\(([^)]+)\.message\)', r'.warnings.push(\1)', content)
sub_message[s \in Texts] ==
  IF Len(s) = 0 THEN <<>>
  ELSE LET m == MessagePushAt(s)
       IN  IF m > 0
           THEN SubSeq(s, 1, m - 1) \o sub_message[Tail2(s, m + 1)]
           ELSE <<s[1]>> \o sub_message[Tail(s)]

\* lines 58-93: the three substitutions of the per-file function, in order, each
\* on the finished text of the one before
comprehensive_rules(content) ==
  CHOOSE out \in {sub_pattern_format_warnings[c2] :
                    c2 \in {sub_pattern_string_warnings[c1] :
                              c1 \in {sub_pattern[content]}}} : TRUE

\* ------------------------------------------------------------ fix_analysis_warnings.py
\* the index of the first token from p on that holds ',' or '}', or 0
FirstStop(s, p) ==
  IF \E j \in p..Len(s) : HasComma(s[j]) \/ HasRB(s[j])
  THEN Min({j \in p..Len(s) : HasComma(s[j]) \/ HasRB(s[j])})
  ELSE 0

\* (\s*capsule_id:[^,]+,\s*suggestion:[^,}]+)(\s*\}) with s[k] the capsule_id
\* field: the index of the token that closes the match, or 0
WarningRestEnd(s, k) ==
  LET q == k + 1 + WsLen[Tail2(s, k + 1)]
  IN  IF q <= Len(s) /\ s[q] = "SUG"
      THEN LET e == FirstStop(s, q + 1)
           IN  IF e > 0 /\ HasRB(s[e]) THEN e ELSE 0
      ELSE 0

\* the capsule_id fields the lazy prefix [^}]*? can reach from s[1]
WarningCandidates(s) ==
  {k \in 2..Len(s) : /\ s[k] = "CID"
                     /\ \A j \in 2..(k - 1) : ~HasRB(s[j])
                     /\ WarningRestEnd(s, k) > 0}

\* where the whitespace run that ends right before s[k] starts
WsStart[s \in Texts, k \in Nat] == IF k > 2 /\ IsWS(s[k - 1]) THEN WsStart[s, k - 1] ELSE k

replace_warning(prefix, middle, suffix) ==
  IF \/ \E i \in 1..Len(prefix) : HasCategory(prefix[i])
     \/ \E i \in 1..Len(middle) : HasCategory(middle[i])
  THEN prefix \o middle \o suffix
  ELSE prefix \o <<"CM", "NL", "S16", "C:validation", "TS", "CM">> \o middle \o suffix

\* re.sub(pattern, replace_warning, content, flags=re.DOTALL)
sub_warning[s \in Texts] ==
  IF Len(s) = 0 THEN <<>>
  ELSE IF s[1] = "AW" /\ WarningCandidates(s) # {}
       THEN LET k == Min(WarningCandidates(s))
                e == WarningRestEnd(s, k)
                p == WsStart[s, k]
            IN  replace_warning(SubSeq(s, 1, p - 1), SubSeq(s, p, e - 1), SubSeq(s, e, e))
                \o sub_warning[Tail2(s, e + 1)]
       ELSE <<s[1]>> \o sub_warning[Tail(s)]

\* (AnalysisWarning\s*\{\s*message:[^,]+,\s*level:[^,}]+)(\s*\}) at the head of
\* s: the index of the closing '}', or 0.  Of the tokens of this script's
\* files only RB holds a '}'.
SimpleWarningEnd(s) ==
  LET q == 2 + WsLen[Tail2(s, 2)]
  IN  IF Len(s) >= 4 /\ s[1] = "AW" /\ q <= Len(s) /\ StartsMessage(s[q])
         /\ \E j \in q..Len(s) : HasComma(s[j])
      THEN LET c == Min({k \in q..Len(s) : HasComma(s[k])})
               r == c + 1 + WsLen[Tail2(s, c + 1)]
           IN  IF r <= Len(s) /\ s[r] = "LV"
               THEN LET e == FirstStop(s, r + 1)
                    IN  IF e > 0 /\ s[e] = "RB" THEN e ELSE 0
               ELSE 0
      ELSE 0

replace_simple_warning(prefix, suffix) ==
  prefix \o <<"CM", "NL", "S16", "C:validation", "TS", "CM", "NL", "S16", "CID",
              "NL", "S16", "SUG">> \o suffix

\* re.sub(pattern2, replace_simple_warning, content, flags=re.DOTALL)
sub_simple_warning[s \in Texts] ==
  IF Len(s) = 0 THEN <<>>
  ELSE LET e == SimpleWarningEnd(s)
       IN  IF e > 0
           THEN replace_simple_warning(SubSeq(s, 1, e - 1), SubSeq(s, e, e))
                \o sub_simple_warning[Tail2(s, e + 1)]
           ELSE <<s[1]>> \o sub_simple_warning[Tail(s)]

\* lines 13-39: the two substitutions of the per-file function, in order
analysis_rules(content) ==
  CHOOSE out \in {sub_simple_warning[c1] : c1 \in {sub_warning[content]}} : TRUE

\* ------------------------------------------------------------ fix_chrono.py
\* re.sub(r'chrono::Some\(', r'Some(', content)
sub_chrono_some[s \in Texts] ==
  IF Len(s) = 0 THEN <<>>
  ELSE IF Len(s) >= 2 /\ s[1] = "CH" /\ s[2] = "SO"
       THEN <<"SO">> \o sub_chrono_some[Tail2(s, 3)]
       ELSE <<s[1]>> \o sub_chrono_some[Tail(s)]

\* Some\(Some\(([^)]+)\)\.to_rfc3339\(\)\)\.to_rfc3339\(\) at the head of s: the
\* index of the second ').to_rfc3339()', or 0
NestedSomeEnd(s) ==
  IF Len(s) >= 5 /\ s[1] = "SO" /\ s[2] = "SO" /\ \E j \in 3..Len(s) : HasRP(s[j])
  THEN LET j == Min({k \in 3..Len(s) : HasRP(s[k])})
       IN  IF j > 3 /\ s[j] = "RR" /\ j < Len(s) /\ s[j + 1] = "RR" THEN j + 1 ELSE 0
  ELSE 0

\* re.sub(r'Some\(Some\(([^)]+)\)\.to_rfc3339\(\)\)\.to_rfc3339\(\)', r'Some(\1.to_rfc3339())', content)
sub_nested_some[s \in Texts] ==
  IF Len(s) = 0 THEN <<>>
  ELSE LET e == NestedSomeEnd(s)
       IN  IF e > 0
           THEN <<"SO">> \o SubSeq(s, 3, e - 2) \o <<"RFCP">> \o sub_nested_some[Tail2(s, e + 1)]
           ELSE <<s[1]>> \o sub_nested_some[Tail(s)]

\* lines 13-16: the two substitutions of the per-file function, in order
chrono_rules(content) ==
  CHOOSE out \in {sub_nested_some[c1] : c1 \in {sub_chrono_some[content]}} : TRUE

\* ------------------------------------------------------------ the batch run
VARIABLES script, disk, orig, rust_files, pc, pass, idx, content, original_content,
          fixed_count, summary_printed, summary_value, exit_code,
          opened, attempts, differs, same, visited, failed, counted, overwritten,
          errors,
          r_mode, r_in, r_out, r_prev, r_n

batch_vars == <<script, disk, orig, rust_files, pc, pass, idx, content,
                original_content, fixed_count, summary_printed, summary_value,
                exit_code, opened, attempts, differs, same, visited, failed,
                counted, overwritten, errors>>
rule_vars == <<r_mode, r_in, r_out, r_prev, r_n>>
vars == <<batch_vars, rule_vars>>

Scripts == {"fix_all_warnings", "fix_analysis_warnings", "fix_chrono"}

\* the directory "src": two entries named *.rs and one entry of another name,
\* each a name and an extension
Entries == {<<"a", ".rs">>, <<"b", ".rs">>, <<"notes", ".txt">>}

\* a listing that keeps every entry
any_file(f) == TRUE

\* f.endswith('.rs')
is_rust_file(f) == f[2] = ".rs"

\* the texts the files of a run hold
FileTexts(sc) ==
  CASE sc = "fix_all_warnings" ->
         { <<"AW", "MSG", "CAT", "RB">>,
           <<"AW", "NL", "SP", "MSGCX", "NL", "RB">>,
           <<"CAPS", "WP", "STR", "M", "EP">> }
    [] sc = "fix_analysis_warnings" ->
         { <<"AW", "MSG", "CAT", "CID", "SUG", "RB">>,
           <<"AW", "MSG", "LV", "RB">>,
           <<"AW", "MSG", "LV", "CM", "CID", "SUG", "RB">> }
    [] OTHER ->
         { <<"SO", "X", "RFCP">>,
           <<"CH", "SO", "X">>,
           <<"SO", "SO", "X", "RR", "RR">> }

\* the substitutions a pass applies to the text of a file
rules_of(sc, p, text) ==
  CASE sc = "fix_all_warnings" /\ p = 1 -> comprehensive_rules(text)
    [] sc = "fix_all_warnings" /\ p = 2 -> sub_message[text]
    [] sc = "fix_analysis_warnings"     -> analysis_rules(text)
    [] OTHER                            -> chrono_rules(text)

\* a write whatever the comparison says
changed_always(new, old) == TRUE

\* if content != original_content
changed(new, old) == new # old

\* a handler that names IOError only
except_IOError(kind) == kind = "OSError"

\* except Exception as e: every error a file raises is caught
except_Exception(kind) == kind \in {"OSError", "UnicodeDecodeError"}

\* a handler that leaves the loop
break_after_error(i, n) == n + 1

\* the for loop goes on with the next file after a caught error
next_after_error(i, n) == i + 1

\* os.listdir order is not specified: any order of the entries that pass the filter
Listings == LET S == {f \in Entries : is_rust_file(f)}
            IN  {q \in [1..Cardinality(S) -> S] : \A f \in S : \E i \in 1..Cardinality(S) : q[i] = f}

NoRules == r_mode = "off" /\ r_in = <<>> /\ r_out = <<>> /\ r_prev = <<>> /\ r_n = 0

Init ==
  /\ script \in Scripts
  /\ disk \in [Entries -> FileTexts(script)]
  /\ orig = disk
  /\ rust_files = <<>>
  /\ pc = "main"
  /\ pass = 1
  /\ idx = 1
  /\ content = <<>>
  /\ original_content = <<>>
  /\ fixed_count = 0
  /\ summary_printed = FALSE
  /\ summary_value = 0
  /\ exit_code = -1
  /\ opened = {}
  /\ attempts = {}
  /\ differs = {}
  /\ same = {}
  /\ visited = {}
  /\ failed = {}
  /\ counted = {}
  /\ overwritten = {}
  /\ errors = 0
  /\ NoRules

file == rust_files[idx]

\* where the run goes once file i of the loop is finished
Goto(i) ==
  /\ idx' = i
  /\ pc' = IF i <= Len(rust_files) THEN "read"
           ELSE IF pass = 1 THEN "summary" ELSE "done"
  /\ exit_code' = IF i > Len(rust_files) /\ pass = 2 THEN 0 ELSE exit_code

\* an error raised while file is processed: caught at the file's try block
Raise(kind) ==
  /\ errors < MaxErrors
  /\ errors' = errors + 1
  /\ IF except_Exception(kind)
     THEN /\ failed' = failed \cup {<<pass, file>>}
          /\ Goto(next_after_error(idx, Len(rust_files)))
     ELSE /\ pc' = "crashed"
          /\ exit_code' = 1
          /\ UNCHANGED <<failed, idx>>

\* main, lines 107-110
main_listdir ==
  /\ pc = "main"
  /\ rust_files' \in Listings
  /\ fixed_count' = 0
  /\ idx' = 1
  /\ pc' = "read"
  /\ UNCHANGED <<script, disk, orig, pass, content, original_content,
                 summary_printed, summary_value, exit_code, opened, attempts,
                 differs, same, visited, failed, counted, overwritten, errors>>
  /\ UNCHANGED rule_vars

\* with open(file_path, 'r') ...: content = f.read()
read_file ==
  /\ pc = "read"
  /\ visited' = visited \cup {<<pass, file>>}
  /\ opened' = opened \cup {file}
  /\ \/ /\ content' = disk[file]
        /\ original_content' = disk[file]
        /\ pc' = "rules"
        /\ UNCHANGED <<idx, exit_code, failed, errors>>
     \/ /\ \E kind \in {"OSError", "UnicodeDecodeError"} : Raise(kind)
        /\ UNCHANGED <<content, original_content>>
  /\ UNCHANGED <<script, disk, orig, rust_files, pass, fixed_count,
                 summary_printed, summary_value, attempts, differs, same,
                 counted, overwritten>>
  /\ UNCHANGED rule_vars

\* the substitutions, the comparison and open(file_path, 'w'), which empties
\* the file
apply_rules ==
  /\ pc = "rules"
  /\ \E new \in {rules_of(script, pass, content)} :
         /\ content' = new
         /\ differs' = IF new # original_content THEN differs \cup {<<pass, file>>} ELSE differs
         /\ same' = IF new = original_content THEN same \cup {<<pass, file>>} ELSE same
         /\ IF changed(new, original_content)
            THEN /\ attempts' = attempts \cup {<<pass, file>>}
                 /\ \/ /\ disk' = [disk EXCEPT ![file] = <<>>]
                       /\ overwritten' = overwritten \cup {file}
                       /\ pc' = "write"
                       /\ UNCHANGED <<idx, exit_code, failed, errors>>
                    \/ /\ Raise("OSError")
                       /\ UNCHANGED <<disk, overwritten>>
            ELSE /\ Goto(idx + 1)
                 /\ UNCHANGED <<attempts, disk, overwritten, failed, errors>>
  /\ UNCHANGED <<script, orig, rust_files, pass, original_content, fixed_count,
                 summary_printed, summary_value, opened, visited, counted>>
  /\ UNCHANGED rule_vars

\* f.write(content) and the close of the file; the first pass returns True and
\* main counts the file
write_file ==
  /\ pc = "write"
  /\ \/ /\ disk' = [disk EXCEPT ![file] = content]
        /\ fixed_count' = IF pass = 1 THEN fixed_count + 1 ELSE fixed_count
        /\ counted' = IF pass = 1 THEN counted \cup {file} ELSE counted
        /\ Goto(idx + 1)
        /\ UNCHANGED <<failed, errors>>
     \/ /\ \E k \in 0..(Len(content) - 1) : disk' = [disk EXCEPT ![file] = SubSeq(content, 1, k)]
        /\ Raise("OSError")
        /\ UNCHANGED <<fixed_count, counted>>
  /\ UNCHANGED <<script, orig, rust_files, pass, content, original_content,
                 summary_printed, summary_value, opened, attempts, differs, same,
                 visited, overwritten>>
  /\ UNCHANGED rule_vars

\* print(f"... {fixed_count}"); fix_all_warnings.main then starts its second loop
print_summary ==
  /\ pc = "summary"
  /\ summary_printed' = TRUE
  /\ summary_value' = fixed_count
  /\ IF script = "fix_all_warnings"
     THEN /\ pass' = 2
          /\ idx' = 1
          /\ pc' = "read"
          /\ UNCHANGED exit_code
     ELSE /\ pc' = "done"
          /\ exit_code' = 0
          /\ UNCHANGED <<pass, idx>>
  /\ UNCHANGED <<script, disk, orig, rust_files, content, original_content,
                 fixed_count, opened, attempts, differs, same, visited, failed,
                 counted, overwritten, errors>>
  /\ UNCHANGED rule_vars

Next == main_listdir \/ read_file \/ apply_rules \/ write_file \/ print_summary

Spec == Init /\ [][Next]_vars

\* the interpreter runs the single thread until main returns
FairSpec == Spec /\ WF_vars(Next)

\* ------------------------------------------------------------ the rules alone
RecordTokens == {"AW", "RB", "NL", "SP", "CAT", "MH", "OKW", "MSG", "MSGCX", "MSGCN"}
PushTokens == {"WP", "CAPS", "FM", "STR", "TS", "RP", "EP", "M", "NL"}
AnalysisTokens == {"AW", "RB", "NL", "MSG", "LV", "CM", "CID", "SUG", "CAT"}
ChronoTokens == {"CH", "SO", "X", "RR", "RFCP"}

Inputs(sc) ==
  CASE sc = "fix_all_warnings" ->
         SeqsUpTo(RecordTokens, MaxLen) \cup SeqsUpTo(PushTokens, MaxPushLen)
    [] sc = "fix_analysis_warnings" -> SeqsUpTo(AnalysisTokens, MaxAnalysisLen)
    [] OTHER -> SeqsUpTo(ChronoTokens, MaxChronoLen)

\* the rule that inserts the category field
category_rule(sc, text) ==
  IF sc = "fix_all_warnings" THEN sub_pattern[text] ELSE sub_warning[text]

\* one run of a script over the text of a file: every pass, in order
run_rules(sc, text) ==
  IF sc = "fix_all_warnings"
  THEN CHOOSE out \in {rules_of(sc, 2, c1) : c1 \in {rules_of(sc, 1, text)}} : TRUE
  ELSE rules_of(sc, 1, text)

RuleInit ==
  /\ script \in Scripts
  /\ r_in \in Inputs(script)
  /\ r_mode = "input"
  /\ r_out = r_in
  /\ r_prev = r_in
  /\ r_n = 0
  /\ disk = [f \in Entries |-> <<>>]
  /\ orig = disk
  /\ rust_files = <<>>
  /\ pc = "off"
  /\ pass = 1
  /\ idx = 1
  /\ content = <<>>
  /\ original_content = <<>>
  /\ fixed_count = 0
  /\ summary_printed = FALSE
  /\ summary_value = 0
  /\ exit_code = -1
  /\ opened = {}
  /\ attempts = {}
  /\ differs = {}
  /\ same = {}
  /\ visited = {}
  /\ failed = {}
  /\ counted = {}
  /\ overwritten = {}
  /\ errors = 0

apply_category_rule ==
  /\ r_mode = "input"
  /\ script # "fix_chrono"
  /\ r_mode' = "category"
  /\ r_out' = category_rule(script, r_in)
  /\ r_n' = 1
  /\ UNCHANGED <<r_in, r_prev>>
  /\ UNCHANGED batch_vars

apply_run ==
  /\ r_mode \in {"input", "run"}
  /\ r_n < 2
  /\ r_mode' = "run"
  /\ r_prev' = r_out
  /\ r_out' = run_rules(script, r_out)
  /\ r_n' = r_n + 1
  /\ UNCHANGED r_in
  /\ UNCHANGED batch_vars

RuleNext == apply_category_rule \/ apply_run

RuleSpec == RuleInit /\ [][RuleNext]_vars

\* ------------------------------------------------------------ the claims
RustEntries == {f \in Entries : f[2] = ".rs"}
Passes == {1, 2}
LastPass == IF script = "fix_all_warnings" THEN 2 ELSE 1
ChangedOnDisk == {f \in Entries : disk[f] # orig[f]}

\* C1: a file is opened for writing exactly when the text the rules produce
\* differs from the text that was read: every pass over a file whose rewritten
\* text differs opens it for writing, no pass whose rewritten text is equal
\* does, the text being written is never the text that was read, and a file no
\* pass opened for writing holds its original text.
C1_WriteIffDiffers ==
  /\ differs \subseteq attempts
  /\ attempts \cap same = {}
  /\ pc = "write" => content # original_content
  /\ \A f \in Entries : (\A p \in Passes : <<p, f>> \notin attempts) => disk[f] = orig[f]

\* a run without errors that rewrote one file and left another, whose rules
\* changed nothing, unwritten
C1_Witness ==
  /\ pc = "done" /\ errors = 0
  /\ \E f \in RustEntries, g \in RustEntries :
       /\ <<1, f>> \in differs /\ disk[f] = rules_of(script, 1, orig[f]) /\ disk[f] # orig[f]
       /\ <<1, g>> \in same /\ \A p \in Passes : <<p, g>> \notin attempts

\* the texts a file may hold after a run if it is either untouched or
\* completely rewritten by the passes that ran
WholeTexts(f) ==
  LET a == rules_of(script, 1, orig[f])
  IN  IF script = "fix_all_warnings"
      THEN {orig[f], a, rules_of(script, 2, orig[f]), rules_of(script, 2, a)}
      ELSE {orig[f], a}

\* C2: after a run, errors included, every file holds its original text or the
\* complete rewritten text, never an empty or partly written one.
C2_NoPartialFiles ==
  pc = "done" => \A f \in Entries : disk[f] \in WholeTexts(f)

\* C3: an error raised for one file is caught at that file: the run does not
\* abort, every file of the listing is still processed by every loop, and a
\* file that raised in the counting loop is not counted.
C3_ErrorSkipsOneFile ==
  /\ pc # "crashed"
  /\ (pc \in {"summary", "done"} \/ pass = 2) =>
       \A f \in RustEntries : <<1, f>> \in visited
  /\ pc = "done" => \A f \in RustEntries : <<LastPass, f>> \in visited
  /\ \A f \in Entries : <<1, f>> \in failed => f \notin counted
  /\ fixed_count = Cardinality(counted)

\* a finished run in which a file raised and a later file of the listing was
\* rewritten and counted
C3_Witness ==
  /\ pc = "done"
  /\ \E i \in 1..Len(rust_files), j \in 1..Len(rust_files) :
       /\ i < j
       /\ <<1, rust_files[i]>> \in failed
       /\ rust_files[j] \in counted
       /\ disk[rust_files[j]] # orig[rust_files[j]]

\* C4: the summary is printed once all files are processed, and the count it
\* prints is the number of files whose text on disk the run changed.
C4_SummaryCountsChanged ==
  summary_printed => /\ pc = "done"
                     /\ summary_value = Cardinality(ChangedOnDisk)

\* C5: a second run of a script's rules over the text a first run produced
\* changes nothing.
C5_Idempotent ==
  (r_mode = "run" /\ r_n = 2) => r_out = r_prev

\* the index of the token that closes the brace opened before s[k], counting
\* nested braces, or 0
RECURSIVE CloseFrom(_, _, _)
CloseFrom(s, k, depth) ==
  IF k > Len(s) THEN 0
  ELSE LET d == depth + (IF s[k] = "AW" THEN 1 ELSE IF s[k] = "RB" THEN -1 ELSE 0)
       IN  IF d = 0 THEN k ELSE CloseFrom(s, k + 1, d)

\* the record literals of a text, each from its name to its closing brace
Literals(s) ==
  {l \in {<<i, CloseFrom(s, i + 1, 1)>> : i \in {k \in 1..Len(s) : s[k] = "AW"}} : l[2] > 0}

CategoriesIn(s, l) == Cardinality({k \in l[1]..l[2] : HasCategory(s[k])})

Occurs(t, s) == \E k \in 0..(Len(s) - Len(t)) : SubSeq(s, k + 1, k + Len(t)) = t

\* C6: the category rule leaves every record literal that holds a category
\* field as it is, and adds no second category field to a literal.
C6_NoDuplicateCategory ==
  r_mode = "category" =>
    /\ \A l \in Literals(r_in) :
         CategoriesIn(r_in, l) > 0 => Occurs(SubSeq(r_in, l[1], l[2]), r_out)
    /\ (\A l \in Literals(r_in) : CategoriesIn(r_in, l) <= 1)
         => (\A l \in Literals(r_out) : CategoriesIn(r_out, l) <= 1)

\* C7: an entry whose name does not end with '.rs' is never opened and holds
\* after the run the text it held before.
C7_OthersUntouched ==
  \A f \in Entries : f[2] # ".rs" =>
    /\ f \notin opened
    /\ disk[f] = orig[f]
    /\ \A p \in Passes : <<p, f>> \notin visited

\* a finished run that rewrote a '.rs' file beside another entry whose text the
\* rules would have changed
C7_Witness ==
  /\ pc = "done"
  /\ \E f \in RustEntries : disk[f] # orig[f]
  /\ \E g \in Entries : /\ g[2] # ".rs"
                        /\ run_rules(script, orig[g]) # orig[g]
                        /\ disk[g] = orig[g]

\* C8: every run ends: the summary is printed and the process exits with
\* status 0, whatever errors the files raise.
C8_RunCompletes ==
  <>(pc = "done" /\ summary_printed /\ exit_code = 0)

\* a run that ended with status 0 after a file raised
C8_Witness ==
  pc = "done" /\ summary_printed /\ exit_code = 0 /\ failed # {}

CompleteMessages == {"MSG", "MSGCX", "MSGCN"}

\* the text holds one record literal, and that literal holds one message field,
\* a complete one, and no category field
OneOpenLiteral(s, l) ==
  /\ Literals(s) = {l}
  /\ Cardinality({k \in 1..Len(s) : s[k] = "AW"}) = 1
  /\ CategoriesIn(s, l) = 0
  /\ Cardinality({k \in l[1]..l[2] : HasMessage(s[k])}) = 1
  /\ \E k \in l[1]..l[2] : s[k] \in CompleteMessages

MessageAt(s, l) == CHOOSE k \in l[1]..l[2] : HasMessage(s[k])

RECURSIVE StripWS(_)
StripWS(s) ==
  IF Len(s) = 0 THEN <<>>
  ELSE IF IsWS(s[1]) THEN StripWS(Tail(s)) ELSE <<s[1]>> \o StripWS(Tail(s))

\* C9: a record literal with a message field and no category field comes out
\* of the category rule of fix_all_warnings with one category field added
\* right after the message field, inside the braces, and nothing else changed.
C9_InsertedAfterMessage ==
  (r_mode = "category" /\ script = "fix_all_warnings") =>
    \A l \in Literals(r_in) :
      OneOpenLiteral(r_in, l) =>
        LET m == MessageAt(r_in, l)
            d == Len(r_out) - Len(r_in)
        IN  /\ d > 0
            /\ r_out = SubSeq(r_in, 1, m) \o SubSeq(r_out, m + 1, m + d)
                       \o Tail2(r_in, m + 1)
            /\ \E c \in InsertedCats :
                 StripWS(SubSeq(r_out, m + 1, m + d)) = <<c, "TS", "CM">>

\* C10: the value of the inserted category field is the one the keyword
\* groups, in their order, give for the text of the message field alone.
C10_CategoryFromMessage ==
  (r_mode = "category" /\ script = "fix_all_warnings") =>
    \A l \in Literals(r_in) :
      OneOpenLiteral(r_in, l) =>
        \A k \in 1..Len(r_out) :
          r_out[k] \in InsertedCats =>
            r_out[k] = CatTok(category_of(<<r_in[MessageAt(r_in, l)]>>))

====
